---- MODULE Spec2Model ----
(***************************************************************************)
(* Streaming-event reducers of the Deep Research frontend.                 *)
(*                                                                         *)
(*   Spec      the Perplexity-style ResearchInterface                      *)
(*             (components/ResearchInterface.tsx, lines 1420-2725)         *)
(*   SpecChat  the chat-style ResearchInterface backed by ResearchContext  *)
(*             (components/ResearchInterface.tsx, lines 19-279)            *)
(*   SpecCmp   runMultiModelComparison (components/ModelComparison.tsx)    *)
(*   SpecLog   the chat-style component in the middle of a long stream     *)
(*   SpecGsi   ensureGsiLoaded and getGoogleAccessToken (lib/googleDocs.ts) *)
(*   SpecKeys  the API keys of ResearchProvider (contexts/ResearchContext)  *)
(*   SpecStream the line buffering of the read loops, byte by byte          *)
(*                                                                         *)
(* Text is abstracted: an event's content is a content id whose length and *)
(* substrings are given by the tables ContentLength, ContentUrls, ...;     *)
(* streamingContent is the sequence of the pieces the template literals    *)
(* of the source concatenate.                                              *)
(***************************************************************************)
EXTENDS Integers, Sequences, FiniteSets, TLC

\* ----------------------------------------------------------------- bounds
\* queries submitted, lines delivered and tab switches in one behaviour
MaxInputs == 4
\* lines one reader.read() delivers
MaxChunk == 2

\* ------------------------------------------------ pure helpers on sequences
RECURSIVE SeqToSet(_)
SeqToSet(s) == IF s = <<>> THEN {} ELSE {Head(s)} \cup SeqToSet(Tail(s))

\* [...new Set(xs)]: first occurrences, in order
RECURSIVE Dedup(_)
Dedup(s) ==
  IF s = <<>> THEN <<>>
  ELSE LET init == Dedup(SubSeq(s, 1, Len(s) - 1))
           x == s[Len(s)]
       IN IF x \in SeqToSet(init) THEN init ELSE Append(init, x)

\* Array.prototype.find as an index: the first i with P, 0 when there is none
FirstIndex(s, P(_)) ==
  IF \E i \in 1..Len(s) : P(s[i])
  THEN CHOOSE i \in 1..Len(s) : P(s[i]) /\ \A j \in 1..(i - 1) : ~P(s[j])
  ELSE 0

\* --------------------------------------------------------- content tables
\* content ids standing for the texts a backend may send
Contents == {"", "Done.", "A", "T", "B", "U", "S"}

ContentLength(c) ==
  CASE c = "" -> 0
    [] c = "Done." -> 5
    [] c = "A" -> 150
    [] c = "T" -> 40
    [] c = "B" -> 1200
    [] c = "U" -> 60
    [] c = "S" -> 45
    [] c = "Processing" -> 30
    [] OTHER -> 30

\* the report-like patterns of showFinalReport ('# Top', '## AI', ...)
ContentHasTitle(c) == c \in {"T"}

\* 'startup', 'AI', 'B2C' or '#'
ContentHasKeyword(c) == c \in {"T"}

\* 'Starting deep research'
ContentHasStartingDeep(c) == c \in {"S"}

\* '# Top 5'
ContentHasTop5(c) == c \in {"T"}

\* extractSourcesFromContent: the URLs of a content, deduplicated
extractSourcesFromContent(c) ==
  CASE c = "A" -> Dedup(<<"https://a.example/1", "https://a.example/1">>)
    [] c = "U" -> Dedup(<<"https://u.example/1">>)
    [] c = "B" -> Dedup(<<"https://a.example/1", "https://b.example/2">>)
    [] OTHER -> <<>>

\* stage names: stage.toLowerCase().includes('final') / .includes('report')
StageLowerIncludesFinal(st) == st \in {"final_report_generation", "Final_report"}

StageLowerIncludesReport(st) == st \in {"final_report_generation", "Final_report"}

\* ------------------------------------------------------------ text pieces
Tok(k, c) == [k |-> k, c |-> c]

Includes(text, k) == \E i \in 1..Len(text) : text[i].k = k

IncludesStartingDeep(text) ==
  \E i \in 1..Len(text) : ContentHasStartingDeep(text[i].c)

\* text.split(k)[0]
BeforeFirst(text, k) ==
  LET i == FirstIndex(text, LAMBDA t : t.k = k)
  IN IF i = 0 THEN text ELSE SubSeq(text, 1, i - 1)

\* text.split(k)[1]: between the first and the second occurrence of k
AfterFirst(text, k) ==
  LET i == FirstIndex(text, LAMBDA t : t.k = k)
      rest == IF i = 0 THEN <<>> ELSE SubSeq(text, i + 1, Len(text))
  IN BeforeFirst(rest, k)

\* ------------------------------------------------------------------ events
\* a parsed StreamingEvent; "" stands for an absent field
Ev(type, stage, content) ==
  [type |-> type, stage |-> stage, content |-> content, sources |-> <<>>]

EvFinalStage == Ev("stage_start", "final_report_generation", "A")
EvStep == Ev("research_step", "", "B")
EvCompleteTitle == Ev("research_complete", "", "T")
EvCompleteEmpty == Ev("research_complete", "", "")
EvError == Ev("error", "", "")
EvApiCall == Ev("api_call", "", "U")
EvUnknown == Ev("heartbeat", "", "")
EvPlanning == Ev("research_planning", "", "S")
EvFinalShort == Ev("stage_update", "Final_report", "Done.")
EvSources ==
  [Ev("sources_found", "", "") EXCEPT
     !.sources = <<"https://a.example/1", "https://s.example/3">>]
EvFinalReport == Ev("final_report", "", "A")
EvCompleteDone == Ev("research_complete", "", "Done.")
EvStepStage == Ev("research_step", "research_execution", "")

\* a line of the response body: a `data: ` line carrying an event, a `data: `
\* line whose JSON does not parse, or a line without the `data: ` prefix
DataLine(ev) == [kind |-> "data", ev |-> ev]
BadLine == [kind |-> "malformed", ev |-> EvUnknown]
OtherLine == [kind |-> "other", ev |-> EvUnknown]

\* what a backend sends during one run of the page: one of these line sets
Alphabets == {"report", "misc", "sources", "stages"}

LinesOf(a) ==
  IF a = "report"
  THEN {DataLine(EvFinalStage), DataLine(EvStep), DataLine(EvCompleteTitle),
        DataLine(EvCompleteEmpty), DataLine(EvError), BadLine}
  ELSE IF a = "stages"
  THEN {DataLine(EvStepStage), DataLine(EvFinalShort)}
  ELSE IF a = "sources"
  THEN {DataLine(EvSources), DataLine(EvApiCall), DataLine(EvFinalStage),
        DataLine(EvFinalReport), DataLine(EvCompleteDone)}
  ELSE {DataLine(EvApiCall), DataLine(EvUnknown), DataLine(EvPlanning),
        DataLine(EvFinalShort), OtherLine, BadLine}

ChunksOf(a) == UNION {[1..n -> LinesOf(a)] : n \in 1..MaxChunk}

\* ------------------------------------------- the Perplexity-style reducer
\* `${baseContent}`: the research-brief header when a brief is known
baseContent(brief) ==
  IF brief # ""
  THEN <<Tok("H_STRATEGY", ""), Tok("raw", brief), Tok("HR", "")>>
  ELSE <<>>

\* the updater of setStreamingContent in the research_step branch
StepContent(prev, brief, c) ==
  LET displayContent ==
        IF ContentLength(c) > 200 THEN Tok("details", c) ELSE Tok("raw", c)
  IN IF Includes(prev, "M_STARTING") \/ Includes(prev, "M_CONDUCTING")
     THEN baseContent(brief)
            \o <<Tok("H_PROGRESS", ""), displayContent, Tok("M_INPROGRESS", "")>>
     ELSE IF Includes(prev, "H_PROGRESS")
     THEN LET beforeProgress == BeforeFirst(prev, "H_PROGRESS")
              existingSteps ==
                BeforeFirst(AfterFirst(prev, "H_PROGRESS"), "M_INPROGRESS")
          IN beforeProgress \o <<Tok("H_PROGRESS", "")>> \o existingSteps
               \o <<displayContent, Tok("M_INPROGRESS", "")>>
     ELSE prev \o <<displayContent>>

\* showFinalReport: the report chosen at a completion event, "" when none.
\* fin and evs are the finalReportContent and streamingEvents the closure of
\* handleSubmit holds.
FindContent(evs, P(_)) ==
  LET i == FirstIndex(evs, P) IN IF i = 0 THEN "" ELSE evs[i].content

showFinalReport(fin, evs, ev) ==
  LET allEvents == evs \o <<ev>>
      byStage == FindContent(allEvents, LAMBDA e :
                   e.content # "" /\ (\/ e.stage = "final_report_generation"
                                      \/ e.stage = "Final_report"
                                      \/ StageLowerIncludesFinal(e.stage)
                                      \/ StageLowerIncludesReport(e.stage)))
      byTitle == FindContent(allEvents, LAMBDA e :
                   e.content # "" /\ ContentHasTitle(e.content))
      byLength == FindContent(allEvents, LAMBDA e :
                   e.content # "" /\ ContentLength(e.content) > 1000)
      byKeyword == FindContent(allEvents, LAMBDA e :
                   /\ e.content # ""
                   /\ ContentLength(e.content) > 200
                   /\ ContentHasKeyword(e.content))
  IN IF fin # "" THEN fin
     ELSE IF byStage # "" THEN byStage
     ELSE IF byTitle # "" THEN byTitle
     ELSE IF byLength # "" THEN byLength
     ELSE byKeyword

WithContent(ev, dflt) ==
  [ev EXCEPT !.content = IF ev.content # "" THEN ev.content ELSE dflt]

\* a dispatch whose fall-through records the event instead of ignoring it
FoldEvent_AppendsUnknown(s, cap, ev) ==
  [s EXCEPT !.streamingEvents = Append(@, ev)]

\* The body of the try block for one parsed event: s is the component state
\* the queued updates apply to, cap the values captured by the closure.
FoldEvent(s, cap, ev) ==
  CASE ev.type \in {"stage_start", "stage_update"} ->
         LET s1 == [s EXCEPT !.currentStage = ev.stage,
                             !.streamingEvents =
                                Append(@, WithContent(ev, "Processing"))]
         IN IF /\ ev.stage = "write_research_brief"
               /\ ev.content # "" /\ ContentLength(ev.content) > 100
            THEN [s1 EXCEPT !.researchBrief = ev.content,
                            !.streamingContent =
                               <<Tok("H_STRATEGY", ""), Tok("raw", ev.content),
                                 Tok("HR", ""), Tok("H_PROGRESS", ""),
                                 Tok("M_STARTING", "")>>]
            ELSE IF /\ \/ ev.stage = "final_report_generation"
                       \/ ev.stage = "Final_report"
                       \/ StageLowerIncludesFinal(ev.stage)
                    /\ ev.content # "" /\ ContentLength(ev.content) > 100
            THEN [s1 EXCEPT !.finalReportContent = ev.content,
                            !.researchSources =
                               extractSourcesFromContent(ev.content),
                            !.streamingContent = <<Tok("raw", ev.content)>>]
            ELSE IF /\ ev.stage = "research_execution"
                    /\ ev.content # "" /\ ContentLength(ev.content) > 100
            THEN [s1 EXCEPT !.streamingContent =
                               baseContent(cap.researchBrief)
                                 \o <<Tok("H_PROGRESS", ""),
                                      Tok("raw", ev.content),
                                      Tok("M_ANALYZING", "")>>]
            ELSE s1
    [] ev.type = "sources_found" ->
         [s EXCEPT !.researchSources = @ \o ev.sources,
                   !.streamingEvents = Append(@, ev)]
    [] ev.type \in {"research_step", "research_finding"} ->
         LET s1 == [s EXCEPT !.streamingEvents = Append(@, ev)]
         IN IF ev.content # "" /\ ContentLength(ev.content) > 20
            THEN [s1 EXCEPT !.streamingContent =
                               StepContent(@, cap.researchBrief, ev.content)]
            ELSE s1
    [] ev.type \in {"research_complete", "stage_complete"} ->
         LET s1 == [s EXCEPT !.isStreaming = FALSE,
                             !.currentStage = "completed",
                             !.streamingEvents = Append(@, ev)]
             reportContent ==
               showFinalReport(cap.finalReportContent, cap.streamingEvents, ev)
         IN IF reportContent # ""
            THEN [s1 EXCEPT !.finalReportContent = reportContent,
                            !.streamingContent = <<Tok("raw", reportContent)>>]
            ELSE [s1 EXCEPT !.streamingContent = <<Tok("FALLBACK", "")>>]
    [] ev.type = "api_call" ->
         LET s1 == [s EXCEPT !.apiCallLogs = Append(@, ev.content),
                             !.streamingEvents = Append(@, ev)]
             apiSources == extractSourcesFromContent(ev.content)
         IN IF ev.content # "" /\ Len(apiSources) > 0
            THEN [s1 EXCEPT !.researchSources = Dedup(@ \o apiSources)]
            ELSE s1
    [] ev.type = "research_planning" ->
         [s EXCEPT !.streamingEvents = Append(@, WithContent(ev, "Planning")),
                   !.streamingContent =
                      baseContent(cap.researchBrief)
                        \o <<Tok("M_PLANNING", ""),
                             Tok("raw", WithContent(ev, "Developing").content)>>]
    [] ev.type = "research_analysis" ->
         [s EXCEPT !.streamingEvents = Append(@, WithContent(ev, "Analyzing")),
                   !.streamingContent =
                      baseContent(cap.researchBrief)
                        \o <<Tok("M_ANALYSIS", ""),
                             Tok("raw", WithContent(ev, "Analyzing").content)>>]
    [] ev.type = "research_synthesis" ->
         [s EXCEPT !.streamingEvents = Append(@, WithContent(ev, "Synthesizing")),
                   !.streamingContent =
                      baseContent(cap.researchBrief)
                        \o <<Tok("M_SYNTHESIS", ""),
                             Tok("raw", WithContent(ev, "Synthesizing").content)>>]
    [] ev.type = "final_report" ->
         LET s1 == [s EXCEPT !.streamingEvents = Append(@, ev)]
         IN IF ev.content # ""
            THEN [s1 EXCEPT !.finalReportContent = ev.content,
                            !.streamingContent = <<Tok("raw", ev.content)>>,
                            !.researchSources =
                               extractSourcesFromContent(ev.content)]
            ELSE s1
    [] ev.type = "error" ->
         [s EXCEPT !.streamingEvents = Append(@, ev)]
    [] OTHER -> s

\* one line of the for loop: only `data: ` lines are parsed, and a line whose
\* JSON.parse throws is logged and skipped by the inner catch
FoldLine(s, cap, line) ==
  IF line.kind = "data" THEN FoldEvent(s, cap, line.ev) ELSE s

\* a for loop that a malformed line ends: the parse error escapes the loop body
RECURSIVE FoldLines_StopAtMalformed(_, _, _)
FoldLines_StopAtMalformed(s, cap, lines) ==
  IF lines = <<>> \/ Head(lines).kind = "malformed" THEN s
  ELSE FoldLines_StopAtMalformed(FoldLine(s, cap, Head(lines)), cap, Tail(lines))

\* the for loop over the lines of one chunk
RECURSIVE FoldLines(_, _, _)
FoldLines(s, cap, lines) ==
  IF lines = <<>> THEN s
  ELSE FoldLines(FoldLine(s, cap, Head(lines)), cap, Tail(lines))

\* ------------------------------------ state of the Perplexity-style component
VARIABLES
  isStreaming,         \* ResearchContext: survives unmounting the component
  mounted,             \* the research tab is shown
  instance,            \* which mount of the component is the current one
  streamingEvents, apiCallLogs, currentStage, finalReportContent,
  researchSources, streamingContent, researchBrief, currentQuery, messages,
  abortControllerRef,  \* the handleSubmit call whose controller the ref holds, 0 for null
  sessionStorage,      \* the payload stored under dra_session_v1
  loops,               \* one entry per handleSubmit call
  autoFixTimers,       \* pending setTimeout callbacks of the auto-fix effect
  alphabet,            \* the line set the backend draws from
  linesRead,           \* lines delivered so far, over all streams
  lastRead             \* the chunk the latest reader.read() returned

pxVars ==
  <<isStreaming, mounted, instance, streamingEvents, apiCallLogs, currentStage,
    finalReportContent, researchSources, streamingContent, researchBrief,
    currentQuery, messages, abortControllerRef, sessionStorage, loops,
    autoFixTimers, alphabet, linesRead, lastRead>>

componentVars ==
  <<streamingEvents, apiCallLogs, currentStage, finalReportContent,
    researchSources, streamingContent, researchBrief>>

\* the state the queued updates of one handler run apply to
UI ==
  [streamingEvents |-> streamingEvents, apiCallLogs |-> apiCallLogs,
   currentStage |-> currentStage, finalReportContent |-> finalReportContent,
   researchSources |-> researchSources, streamingContent |-> streamingContent,
   researchBrief |-> researchBrief, isStreaming |-> isStreaming]

\* the second useEffect: the payload written after every render that changed it
Persist ==
  sessionStorage' =
    IF mounted'
    THEN [messages |-> messages', streamingEvents |-> streamingEvents',
          apiCallLogs |-> apiCallLogs',
          finalReportContent |-> finalReportContent',
          researchSources |-> researchSources']
    ELSE sessionStorage

\* a handleSubmit call updates the component it was created by; the setters of
\* an unmounted component do nothing, the setters of the context always work
Live(l) == mounted /\ loops[l].instance = instance

Commit(l, s) ==
  /\ isStreaming' = s.isStreaming
  /\ IF Live(l)
     THEN /\ streamingEvents' = s.streamingEvents
          /\ apiCallLogs' = s.apiCallLogs
          /\ currentStage' = s.currentStage
          /\ finalReportContent' = s.finalReportContent
          /\ researchSources' = s.researchSources
          /\ streamingContent' = s.streamingContent
          /\ researchBrief' = s.researchBrief
     ELSE UNCHANGED componentVars

\* renderResearchContent: the main text and the source chips on the page
renderResearchContent ==
  IF currentQuery = 0
  THEN [content |-> <<Tok("START_YOUR_RESEARCH", "")>>, sources |-> <<>>]
  ELSE [content |->
          IF finalReportContent # "" THEN <<Tok("raw", finalReportContent)>>
          ELSE IF streamingContent # <<>> THEN streamingContent
          ELSE IF isStreaming THEN <<Tok("SKELETON", "")>>
          ELSE <<Tok("STARTING_PROCESS", "")>>,
        sources |-> SubSeq(researchSources, 1,
                           IF Len(researchSources) > 6 THEN 6
                           ELSE Len(researchSources))]

\* what the environment has fed the component so far: submitted queries,
\* delivered lines and switches away from the research tab
PxInputs == Len(loops) + linesRead + instance + (IF mounted THEN 0 ELSE 1)

PxInit ==
  /\ isStreaming = FALSE
  /\ mounted = TRUE
  /\ instance = 0
  /\ streamingEvents = <<>>
  /\ apiCallLogs = <<>>
  /\ currentStage = ""
  /\ finalReportContent = ""
  /\ researchSources = <<>>
  /\ streamingContent = <<>>
  /\ researchBrief = ""
  /\ currentQuery = 0
  /\ messages = <<>>
  /\ abortControllerRef = 0
  /\ sessionStorage =
       [messages |-> <<>>, streamingEvents |-> <<>>, apiCallLogs |-> <<>>,
        finalReportContent |-> "", researchSources |-> <<>>]
  /\ loops = <<>>
  /\ autoFixTimers = {}
  /\ alphabet \in Alphabets
  /\ linesRead = 0
  /\ lastRead = [loop |-> 0, chunk |-> <<>>]

\* handleSubmit up to `await fetch`: archive the previous research, reset the
\* session state, replace the abort controller
HandleSubmit ==
  /\ mounted /\ ~isStreaming
  /\ PxInputs < MaxInputs
  /\ LET l == Len(loops) + 1
     IN /\ messages' =
             IF currentQuery # 0 /\ (streamingContent # <<>> \/ finalReportContent # "")
             THEN messages \o
                    <<[type |-> "user", query |-> currentQuery,
                       content |-> <<>>, sources |-> <<>>],
                      [type |-> "assistant", query |-> 0,
                       content |-> IF finalReportContent # ""
                                   THEN <<Tok("raw", finalReportContent)>>
                                   ELSE streamingContent,
                       sources |-> researchSources]>>
             ELSE messages
        /\ currentQuery' = l
        /\ isStreaming' = TRUE
        /\ streamingEvents' = <<>>
        /\ apiCallLogs' = <<>>
        /\ currentStage' = ""
        /\ finalReportContent' = ""
        /\ streamingContent' = <<>>
        /\ researchBrief' = ""
        /\ researchSources' = <<>>
        /\ abortControllerRef' = l
        /\ loops' = Append(loops,
             [pc |-> "fetch", instance |-> instance, aborted |-> FALSE,
              cap |-> [finalReportContent |-> finalReportContent,
                       streamingEvents |-> streamingEvents,
                       researchBrief |-> researchBrief]])
  /\ UNCHANGED <<mounted, instance, autoFixTimers, alphabet, linesRead, lastRead>>
  /\ Persist

\* handleSubmit without its finally block: only the catch clears isStreaming
CatchFinally_NoFinally(l, err) ==
  /\ isStreaming' = IF err = "none" THEN isStreaming ELSE FALSE
  /\ IF Live(l)
     THEN /\ currentStage' = ""
          /\ streamingContent' =
               IF err \in {"none", "AbortError"} THEN streamingContent
               ELSE <<Tok("ERROR", err)>>
     ELSE UNCHANGED <<currentStage, streamingContent>>
  /\ loops' = [loops EXCEPT ![l].pc = "done"]
  /\ UNCHANGED <<mounted, instance, streamingEvents, apiCallLogs,
                 finalReportContent, researchSources, researchBrief,
                 currentQuery, messages, abortControllerRef, autoFixTimers,
                 alphabet, linesRead, lastRead>>
  /\ Persist

\* a catch that does not tell an AbortError from a failure
CatchFinally_AbortIsError(l, err) ==
  /\ isStreaming' = FALSE
  /\ IF Live(l)
     THEN /\ currentStage' = ""
          /\ streamingContent' =
               IF err = "none" THEN streamingContent
               ELSE <<Tok("ERROR", err)>>
     ELSE UNCHANGED <<currentStage, streamingContent>>
  /\ loops' = [loops EXCEPT ![l].pc = "done"]
  /\ UNCHANGED <<mounted, instance, streamingEvents, apiCallLogs,
                 finalReportContent, researchSources, researchBrief,
                 currentQuery, messages, abortControllerRef, autoFixTimers,
                 alphabet, linesRead, lastRead>>
  /\ Persist

\* catch (error) { if (name !== 'AbortError') setStreamingContent(...) }
\* finally { setIsStreaming(false); setCurrentStage('') }
CatchFinally(l, err) ==
  /\ isStreaming' = FALSE
  /\ IF Live(l)
     THEN /\ currentStage' = ""
          /\ streamingContent' =
               IF err \in {"none", "AbortError"} THEN streamingContent
               ELSE <<Tok("ERROR", err)>>
     ELSE UNCHANGED <<currentStage, streamingContent>>
  /\ loops' = [loops EXCEPT ![l].pc = "done"]
  /\ UNCHANGED <<mounted, instance, streamingEvents, apiCallLogs,
                 finalReportContent, researchSources, researchBrief,
                 currentQuery, messages, abortControllerRef, autoFixTimers,
                 alphabet, linesRead, lastRead>>
  /\ Persist

\* fetch resolves with a 2xx response that has a body
FetchOk(l) ==
  /\ loops[l].pc = "fetch" /\ ~loops[l].aborted
  /\ loops' = [loops EXCEPT ![l].pc = "read"]
  /\ UNCHANGED <<isStreaming, mounted, instance, componentVars, currentQuery,
                 messages, abortControllerRef, sessionStorage, autoFixTimers,
                 alphabet, linesRead, lastRead>>

\* a catch that issues the request again instead of reporting the failure
FetchFail_Retry(l) ==
  /\ loops[l].pc = "fetch" /\ ~loops[l].aborted
  /\ loops' = Append([loops EXCEPT ![l].pc = "done"],
                     [loops[l] EXCEPT !.pc = "fetch"])
  /\ abortControllerRef' = Len(loops) + 1
  /\ UNCHANGED <<isStreaming, mounted, instance, componentVars, currentQuery,
                 messages, sessionStorage, autoFixTimers, alphabet, linesRead,
                 lastRead>>

\* fetch rejects, or resolves with a non-2xx status
FetchFail(l) ==
  /\ loops[l].pc = "fetch" /\ ~loops[l].aborted
  /\ \E err \in {"HTTP error! status: 500", "Failed to fetch"} :
       CatchFinally(l, err)

\* reader.read() returns a chunk of complete lines, which the for loop folds
ReadChunk(l) ==
  /\ loops[l].pc = "read" /\ ~loops[l].aborted
  /\ \E chunk \in ChunksOf(alphabet) :
       /\ PxInputs + Len(chunk) <= MaxInputs
       /\ linesRead' = linesRead + Len(chunk)
       /\ lastRead' = [loop |-> l, chunk |-> chunk]
       /\ Commit(l, FoldLines(UI, loops[l].cap, chunk))
  /\ UNCHANGED <<mounted, instance, currentQuery, messages, abortControllerRef,
                 loops, autoFixTimers, alphabet>>
  /\ Persist

\* reader.read() reports done
StreamEnd(l) ==
  /\ loops[l].pc = "read" /\ ~loops[l].aborted
  /\ CatchFinally(l, "none")

\* reader.read() rejects with a network error
ReadFail(l) ==
  /\ loops[l].pc = "read" /\ ~loops[l].aborted
  /\ CatchFinally(l, "network error")

\* the pending fetch or read rejects with an AbortError
Aborted(l) ==
  /\ loops[l].pc \in {"fetch", "read"} /\ loops[l].aborted
  /\ CatchFinally(l, "AbortError")

\* the Stop button, shown while isStreaming
stopStreaming ==
  /\ mounted /\ isStreaming
  /\ loops' = IF abortControllerRef # 0
              THEN [loops EXCEPT ![abortControllerRef].aborted = TRUE]
              ELSE loops
  /\ isStreaming' = FALSE
  /\ UNCHANGED <<mounted, instance, componentVars, currentQuery, messages,
                 abortControllerRef, sessionStorage, autoFixTimers, alphabet, linesRead,
                 lastRead>>

\* switching to another tab unmounts the component: its state is dropped
Unmount ==
  /\ mounted
  /\ PxInputs < MaxInputs
  /\ mounted' = FALSE
  /\ streamingEvents' = <<>>
  /\ apiCallLogs' = <<>>
  /\ currentStage' = ""
  /\ finalReportContent' = ""
  /\ researchSources' = <<>>
  /\ streamingContent' = <<>>
  /\ researchBrief' = ""
  /\ currentQuery' = 0
  /\ messages' = <<>>
  /\ abortControllerRef' = 0
  /\ UNCHANGED <<isStreaming, instance, sessionStorage, loops, autoFixTimers,
                 alphabet, linesRead, lastRead>>

\* switching back mounts a new instance, whose first effect loads the payload
Mount ==
  /\ ~mounted
  /\ mounted' = TRUE
  /\ instance' = instance + 1
  /\ messages' = sessionStorage.messages
  /\ streamingEvents' = sessionStorage.streamingEvents
  /\ apiCallLogs' = sessionStorage.apiCallLogs
  /\ finalReportContent' = sessionStorage.finalReportContent
  /\ researchSources' = sessionStorage.researchSources
  /\ UNCHANGED <<isStreaming, currentStage, streamingContent, researchBrief,
                 currentQuery, abortControllerRef, loops, autoFixTimers,
                 alphabet, linesRead, lastRead>>
  /\ Persist

\* the auto-fix effect, run after a render that changed one of its inputs
AutoFixFound ==
  FirstIndex(streamingEvents, LAMBDA e :
    \/ e.stage = "Final_report"
    \/ e.content # "" /\ ContentHasTop5(e.content) /\ ContentLength(e.content) > 1000)

AutoFixEffect ==
  /\ mounted
  /\ LET first == /\ currentStage = "completed"
                  /\ finalReportContent # ""
                  /\ Includes(streamingContent, "FALLBACK")
         second == /\ ~isStreaming
                   /\ Len(streamingEvents) > 0
                   /\ IncludesStartingDeep(streamingContent)
                   /\ AutoFixFound # 0
                   /\ streamingEvents[AutoFixFound].content # ""
         timer == [instance |-> instance, content |-> finalReportContent]
     IN /\ (first /\ timer \notin autoFixTimers) \/ second
        /\ autoFixTimers' = IF first THEN autoFixTimers \cup {timer}
                            ELSE autoFixTimers
        /\ IF second
           THEN /\ finalReportContent' = streamingEvents[AutoFixFound].content
                /\ streamingContent' =
                     <<Tok("raw", streamingEvents[AutoFixFound].content)>>
                /\ currentStage' = "completed"
           ELSE UNCHANGED <<finalReportContent, streamingContent, currentStage>>
  /\ UNCHANGED <<isStreaming, mounted, instance, streamingEvents, apiCallLogs,
                 researchSources, researchBrief, currentQuery, messages,
                 abortControllerRef, loops, alphabet, linesRead, lastRead>>
  /\ Persist

\* setTimeout(() => setStreamingContent(finalReportContent), 500)
AutoFixTimer ==
  \E t \in autoFixTimers :
    /\ autoFixTimers' = autoFixTimers \ {t}
    /\ streamingContent' =
         IF mounted /\ t.instance = instance
         THEN <<Tok("raw", t.content)>> ELSE streamingContent
    /\ UNCHANGED <<isStreaming, mounted, instance, streamingEvents, apiCallLogs,
                   currentStage, finalReportContent, researchSources,
                   researchBrief, currentQuery, messages, abortControllerRef,
                   sessionStorage, loops, alphabet, linesRead, lastRead>>


\* ------------------------------------------ the chat-style ResearchInterface
\* queries submitted and lines delivered in one behaviour
MaxChatInputs == 4

\* chat events carry an error text and a node name as well
ChatEv(type, stage, content, error, node) ==
  [type |-> type, stage |-> stage, content |-> content, error |-> error,
   node |-> node]

ChatEvents ==
  {ChatEv("stage_start", "clarification", "L", "", ""),
   ChatEv("node_update", "", "R", "", "final_report_generation"),
   ChatEv("research_complete", "", "", "", ""),
   ChatEv("error", "", "", "E500", ""),
   ChatEv("error", "", "Ebad", "", ""),
   ChatEv("error", "", "", "", "")}

ChatLines == {DataLine(ev) : ev \in ChatEvents} \cup {BadLine}

ChatContentLength(c) ==
  CASE c = "" -> 0
    [] c = "L" -> 30
    [] c = "R" -> 150
    [] OTHER -> 12

\* the first capture group of the report patterns, "" when none matches
ChatReportMatch(c) == IF c = "R" THEN "Rbody" ELSE ""

ChatMatchLength(m) == IF m = "Rbody" THEN 120 ELSE 0

ChatHasSources(c) == c \in {"R"}

\* a check that never recognises a temporary failure
isRetryableError_Never(msg) == FALSE

\* errorMessage.includes('500') || 'rate limit' || 'timeout'
isRetryableError(msg) == msg \in {"E500"}

VARIABLES
  chatIsStreaming, chatStreamingEvents, chatCurrentStage, chatMessages,
  chatApiCallLogs, chatIsTyping, chatCurrentTypingStage,
  chatTimers,          \* pending setTimeout(() => setIsTyping(false), 2000)
  chatAbortRef,        \* abortControllerRef.current, 0 for null
  chatLoops,           \* one entry per handleSubmit call
  chatLinesRead

chatVars ==
  <<chatIsStreaming, chatStreamingEvents, chatCurrentStage, chatMessages,
    chatApiCallLogs, chatIsTyping, chatCurrentTypingStage, chatTimers,
    chatAbortRef, chatLoops, chatLinesRead>>

ChatUI ==
  [isStreaming |-> chatIsStreaming, streamingEvents |-> chatStreamingEvents,
   currentStage |-> chatCurrentStage, messages |-> chatMessages,
   apiCallLogs |-> chatApiCallLogs, isTyping |-> chatIsTyping,
   currentTypingStage |-> chatCurrentTypingStage, timers |-> chatTimers]

\* what the environment has fed the component so far: submitted queries and
\* delivered lines
ChatInputs == Len(chatLoops) + chatLinesRead

ChatInit ==
  /\ chatIsStreaming = FALSE
  /\ chatStreamingEvents = <<>>
  /\ chatCurrentStage = ""
  /\ chatMessages = <<>>
  /\ chatApiCallLogs = <<>>
  /\ chatIsTyping = FALSE
  /\ chatCurrentTypingStage = ""
  /\ chatTimers = 0
  /\ chatAbortRef = 0
  /\ chatLoops = <<>>
  /\ chatLinesRead = 0

\* prev.slice(-50)
LogWindow == 50

LastN(seq, n) ==
  IF Len(seq) <= n THEN seq ELSE SubSeq(seq, Len(seq) - n + 1, Len(seq))

\* messages.map(msg => msg.id === systemMessage.id ? {...msg, content, isStreaming: false} : msg)
SetSystemMessage(msgs, l, content) ==
  [i \in 1..Len(msgs) |->
     IF msgs[i].session = l /\ msgs[i].type = "system"
     THEN [msgs[i] EXCEPT !.content = content, !.isStreaming = FALSE]
     ELSE msgs[i]]

\* the report a research_complete event puts into the assistant message
ChatFinalReport(allEvents) ==
  LET idx == {i \in 1..Len(allEvents) :
                allEvents[i].node = "final_report_generation"
                  /\ allEvents[i].content # ""}
  IN IF idx = {} THEN Tok("COMPLETED", "")
     ELSE LET last == allEvents[CHOOSE i \in idx : \A j \in idx : j <= i].content
              m == ChatReportMatch(last)
              body == IF m # "" /\ ChatMatchLength(m) > 50 THEN m
                      ELSE IF ChatContentLength(last) > 100 THEN last
                      ELSE ""
          IN IF body = "" THEN Tok("COMPLETED", "")
             ELSE IF ChatHasSources(last) THEN Tok("report+sources", body)
             ELSE Tok("report", body)

\* the body of the try block for one parsed event of handleSubmit call l
ChatFoldEvent(s, l, ev) ==
  LET logged ==
        IF /\ ev.content # ""
           /\ \/ ev.type \in {"api_call", "stage_start", "stage_update",
                              "research_step", "research_finding"}
              \/ ChatContentLength(ev.content) > 20
        THEN [s EXCEPT !.apiCallLogs = Append(LastN(@, LogWindow), ev.content)]
        ELSE s
      staged ==
        IF ev.stage # ""
        THEN [logged EXCEPT !.currentStage = ev.stage,
                            !.currentTypingStage = ev.stage,
                            !.isTyping = TRUE,
                            !.timers = @ + 1]
        ELSE logged
      completed ==
        IF ev.type = "research_complete"
        THEN LET allEvents == Append(staged.streamingEvents, ev)
             IN [staged EXCEPT
                   !.isStreaming = FALSE,
                   !.streamingEvents = allEvents,
                   !.messages =
                      Append(SetSystemMessage(@, l, Tok("COMPLETED_IN", "")),
                             [session |-> l, type |-> "assistant",
                              content |-> ChatFinalReport(allEvents),
                              isStreaming |-> FALSE])]
        ELSE [staged EXCEPT !.streamingEvents = Append(@, ev)]
  IN IF ev.type = "error"
     THEN LET errorMessage ==
                IF ev.error # "" THEN ev.error
                ELSE IF ev.content # "" THEN ev.content
                ELSE "An unexpected error occurred"
              displayMessage ==
                IF isRetryableError(errorMessage)
                THEN Tok("retryable", errorMessage)
                ELSE Tok("Error", errorMessage)
          IN [completed EXCEPT
                !.isStreaming = FALSE,
                !.isTyping = FALSE,
                !.messages = SetSystemMessage(@, l, displayMessage)]
     ELSE completed

RECURSIVE ChatFoldLines(_, _, _)
ChatFoldLines(s, l, lines) ==
  IF lines = <<>> THEN s
  ELSE ChatFoldLines(
         IF Head(lines).kind = "data"
         THEN ChatFoldEvent(s, l, Head(lines).ev) ELSE s,
         l, Tail(lines))

ChatCommit(s) ==
  /\ chatIsStreaming' = s.isStreaming
  /\ chatStreamingEvents' = s.streamingEvents
  /\ chatCurrentStage' = s.currentStage
  /\ chatMessages' = s.messages
  /\ chatApiCallLogs' = s.apiCallLogs
  /\ chatIsTyping' = s.isTyping
  /\ chatCurrentTypingStage' = s.currentTypingStage
  /\ chatTimers' = s.timers

\* handleSubmit up to `await fetch`
ChatHandleSubmit ==
  /\ ~chatIsStreaming
  /\ ChatInputs < MaxChatInputs
  /\ LET l == Len(chatLoops) + 1
     IN /\ chatIsStreaming' = TRUE
        /\ chatStreamingEvents' = <<>>
        /\ chatCurrentStage' = ""
        /\ chatApiCallLogs' = <<>>
        /\ chatMessages' = chatMessages \o
             <<[session |-> l, type |-> "user", content |-> Tok("query", ""),
                isStreaming |-> FALSE],
               [session |-> l, type |-> "system",
                content |-> Tok("STARTING", ""), isStreaming |-> TRUE]>>
        /\ chatAbortRef' = l
        /\ chatLoops' = Append(chatLoops, [pc |-> "fetch", aborted |-> FALSE])
  /\ UNCHANGED <<chatIsTyping, chatCurrentTypingStage, chatTimers, chatLinesRead>>

ChatFetchOk(l) ==
  /\ chatLoops[l].pc = "fetch" /\ ~chatLoops[l].aborted
  /\ chatLoops' = [chatLoops EXCEPT ![l].pc = "read"]
  /\ UNCHANGED <<chatIsStreaming, chatStreamingEvents, chatCurrentStage,
                 chatMessages, chatApiCallLogs, chatIsTyping,
                 chatCurrentTypingStage, chatTimers, chatAbortRef, chatLinesRead>>

\* catch (error): an AbortError is only logged, any other error replaces the
\* system message; both end with setIsStreaming(false)
ChatCatch(l, err) ==
  /\ chatMessages' =
       IF err = "AbortError" THEN chatMessages
       ELSE SetSystemMessage(chatMessages, l, Tok("Connection error", err))
  /\ chatIsStreaming' = FALSE
  /\ chatLoops' = [chatLoops EXCEPT ![l].pc = "done"]
  /\ UNCHANGED <<chatStreamingEvents, chatCurrentStage, chatApiCallLogs,
                 chatIsTyping, chatCurrentTypingStage, chatTimers, chatAbortRef,
                 chatLinesRead>>

ChatFetchFail(l) ==
  /\ chatLoops[l].pc = "fetch" /\ ~chatLoops[l].aborted
  /\ \E err \in {"HTTP error! status: 500", "Failed to fetch"} : ChatCatch(l, err)

ChatReadChunk(l) ==
  /\ chatLoops[l].pc = "read" /\ ~chatLoops[l].aborted
  /\ \E n \in 1..MaxChunk : \E chunk \in [1..n -> ChatLines] :
       /\ ChatInputs + n <= MaxChatInputs
       /\ chatLinesRead' = chatLinesRead + n
       /\ ChatCommit(ChatFoldLines(ChatUI, l, chunk))
  /\ UNCHANGED <<chatAbortRef, chatLoops>>

\* reader.read() reports done: the loop breaks and handleSubmit returns
ChatStreamEnd(l) ==
  /\ chatLoops[l].pc = "read" /\ ~chatLoops[l].aborted
  /\ chatLoops' = [chatLoops EXCEPT ![l].pc = "done"]
  /\ UNCHANGED <<chatIsStreaming, chatStreamingEvents, chatCurrentStage,
                 chatMessages, chatApiCallLogs, chatIsTyping,
                 chatCurrentTypingStage, chatTimers, chatAbortRef, chatLinesRead>>

ChatReadFail(l) ==
  /\ chatLoops[l].pc = "read" /\ ~chatLoops[l].aborted
  /\ ChatCatch(l, "network error")

ChatAborted(l) ==
  /\ chatLoops[l].pc \in {"fetch", "read"} /\ chatLoops[l].aborted
  /\ ChatCatch(l, "AbortError")

ChatStopStreaming ==
  /\ chatIsStreaming
  /\ chatLoops' = IF chatAbortRef # 0
                  THEN [chatLoops EXCEPT ![chatAbortRef].aborted = TRUE]
                  ELSE chatLoops
  /\ chatIsStreaming' = FALSE
  /\ UNCHANGED <<chatStreamingEvents, chatCurrentStage, chatMessages,
                 chatApiCallLogs, chatIsTyping, chatCurrentTypingStage,
                 chatTimers, chatAbortRef, chatLinesRead>>

\* a typing timer fires
ChatTypingTimeout ==
  /\ chatTimers > 0
  /\ chatTimers' = chatTimers - 1
  /\ chatIsTyping' = FALSE
  /\ UNCHANGED <<chatIsStreaming, chatStreamingEvents, chatCurrentStage,
                 chatMessages, chatApiCallLogs, chatCurrentTypingStage,
                 chatAbortRef, chatLoops, chatLinesRead>>


\* ------------------------------------------------ runMultiModelComparison
\* toggles, requests, lines delivered and clock ticks in one behaviour
MaxCmpInputs == 5

\* availableModels
Models == {"anthropic", "openai", "kimi"}

StageBuckets ==
  {"clarification", "research_brief", "research_execution", "final_report"}

\* Date.now() advances in steps of TickMs milliseconds
TickMs == 1000

\* an event of a comparison stream; sources is the length of metadata.sources,
\* -1 when it is not an array
CmpEv(type, stage, content, sources) ==
  [type |-> type, stage |-> stage, content |-> content, sources |-> sources]

CmpEvents ==
  {CmpEv("stage_start", "write_research_brief", "", -1),
   CmpEv("sources_found", "", "", 2),
   CmpEv("research_step", "final_report_generation", "W", -1),
   CmpEv("error", "", "X", -1)}

CmpLines == {DataLine(ev) : ev \in CmpEvents} \cup {BadLine, OtherLine}

\* the lines and the response statuses of a backend that works and of one
\* that reports failures
CmpLinesOf(a) ==
  IF a = "report"
  THEN {l \in CmpLines : l.kind = "malformed" \/ (l.kind = "data" /\ l.ev.type # "error")}
  ELSE {l \in CmpLines : l.kind = "other" \/ (l.kind = "data" /\ l.ev.type \in {"error", "research_step"})}

CmpStatuses(a) == IF a = "report" THEN {200} ELSE {200, 500}

\* content.split(/\s+/).filter(Boolean).length
WordCount(c) == IF c = "W" THEN 3 ELSE IF c = "X" THEN 2 ELSE 0

RECURSIVE TotalWords(_)
TotalWords(contents) ==
  IF contents = <<>> THEN 0
  ELSE WordCount(Head(contents)) + TotalWords(Tail(contents))

normalizeStage(stage) ==
  IF stage \in {"clarification", "clarify_with_user"} THEN "clarification"
  ELSE IF stage \in {"write_research_brief", "research_brief"} THEN "research_brief"
  ELSE IF stage \in {"final_report_generation", "Final_report"} THEN "final_report"
  ELSE "research_execution"

VARIABLES
  selectedModels, isRunningComparison, comparisonResults, currentRunProgress,
  cmpRunModels,        \* the selectedModels the running call mapped over
  cmpTasks,            \* the local variables of each task of the running call
  cmpNow,              \* Date.now()
  cmpFetches, cmpLinesRead, cmpToggles

cmpVars ==
  <<selectedModels, isRunningComparison, comparisonResults, currentRunProgress,
    cmpRunModels, cmpTasks, cmpNow, cmpFetches, cmpLinesRead, cmpToggles>>

ZeroTimings == [b \in StageBuckets |-> 0]

IdleTask ==
  [pc |-> "idle", started |-> 0, totalContent |-> <<>>,
   activeStage |-> "clarification", stageStart |-> 0,
   stageTimings |-> ZeroTimings, sourceCount |-> 0, duration |-> 0,
   error |-> "", status |-> 0]

\* what the environment has fed the component so far: model toggles,
\* requests answered, delivered lines and clock ticks
CmpInputs == cmpToggles + cmpFetches + cmpLinesRead + cmpNow \div TickMs

CmpInit ==
  /\ selectedModels = <<"anthropic", "openai", "kimi">>
  /\ isRunningComparison = FALSE
  /\ comparisonResults = <<>>
  /\ currentRunProgress = [m \in Models |-> ""]
  /\ cmpRunModels = <<>>
  /\ cmpTasks = [m \in Models |-> IdleTask]
  /\ cmpNow = 0
  /\ cmpFetches = 0
  /\ cmpLinesRead = 0
  /\ cmpToggles = 0

\* the model toggle buttons, disabled while a comparison runs
ToggleModel(m) ==
  /\ ~isRunningComparison
  /\ CmpInputs < MaxCmpInputs
  /\ cmpToggles' = cmpToggles + 1
  /\ selectedModels' =
       IF m \in SeqToSet(selectedModels)
       THEN SelectSeq(selectedModels, LAMBDA x : x # m)
       ELSE Append(selectedModels, m)
  /\ UNCHANGED <<isRunningComparison, comparisonResults, currentRunProgress,
                 cmpRunModels, cmpTasks, cmpNow, cmpFetches, cmpLinesRead>>

\* runMultiModelComparison up to `await Promise.all(tasks)`: every task has
\* initialised its locals and issued its fetch
runMultiModelComparison ==
  /\ ~isRunningComparison
  /\ Len(selectedModels) # 0
  /\ CmpInputs + Len(selectedModels) <= MaxCmpInputs
  /\ cmpFetches' = cmpFetches + Len(selectedModels)
  /\ isRunningComparison' = TRUE
  /\ cmpRunModels' = selectedModels
  /\ cmpTasks' =
       [m \in Models |->
          IF m \in SeqToSet(selectedModels)
          THEN [IdleTask EXCEPT !.pc = "fetch", !.started = cmpNow,
                                !.stageStart = cmpNow]
          ELSE IdleTask]
  /\ UNCHANGED <<selectedModels, comparisonResults, currentRunProgress, cmpNow,
                 cmpLinesRead, cmpToggles>>

Tick ==
  /\ isRunningComparison
  /\ CmpInputs < MaxCmpInputs
  /\ cmpNow' = cmpNow + TickMs
  /\ UNCHANGED <<selectedModels, isRunningComparison, comparisonResults,
                 currentRunProgress, cmpRunModels, cmpTasks, cmpFetches,
                 cmpLinesRead, cmpToggles>>

\* the body of the inner try for one parsed event, on the locals t of a task
CmpFoldEvent(t, evt, now) ==
  LET nextStage == normalizeStage(evt.stage)
      t1 == IF evt.stage # "" /\ nextStage # t.activeStage
            THEN [t EXCEPT !.stageTimings[t.activeStage] =
                              @ + (now - t.stageStart) \div 1000,
                           !.activeStage = nextStage,
                           !.stageStart = now]
            ELSE t
      t2 == IF evt.type = "sources_found"
            THEN [t1 EXCEPT !.sourceCount =
                               @ + (IF evt.sources >= 0 THEN evt.sources ELSE 1)]
            ELSE t1
  IN IF evt.content # ""
     THEN [t2 EXCEPT !.totalContent = Append(@, evt.content)]
     ELSE t2

RECURSIVE CmpFoldLines(_, _, _)
CmpFoldLines(t, lines, now) ==
  IF lines = <<>> THEN t
  ELSE CmpFoldLines(
         IF Head(lines).kind = "data"
         THEN CmpFoldEvent(t, Head(lines).ev, now) ELSE t,
         Tail(lines), now)

\* an updater that forgets the spread: ({ [model]: evt.stage || 'streaming' })
UpdateProgress_NoSpread(prev, m, evt) ==
  [x \in Models |->
     IF x = m THEN (IF evt.stage # "" THEN evt.stage ELSE "streaming") ELSE ""]

\* setCurrentRunProgress(prev => ({ ...prev, [model]: evt.stage || 'streaming' }))
UpdateProgress(prev, m, evt) ==
  [prev EXCEPT ![m] = IF evt.stage # "" THEN evt.stage ELSE "streaming"]

RECURSIVE ProgressAfter(_, _, _)
ProgressAfter(prev, m, lines) ==
  IF lines = <<>> THEN prev
  ELSE ProgressAfter(
         IF Head(lines).kind = "data"
         THEN UpdateProgress(prev, m, Head(lines).ev) ELSE prev,
         m, Tail(lines))

\* the end of a task: close the stage that is active and return the result
CloseTask(t, now, err) ==
  [t EXCEPT !.pc = "done",
            !.stageTimings[t.activeStage] = @ + (now - t.stageStart) \div 1000,
            !.duration = (now - t.started) \div 1000,
            !.error = err]

\* fetch resolves with a body; res.status is never looked at
CmpFetchOk(m) ==
  /\ cmpTasks[m].pc = "fetch"
  /\ \E status \in CmpStatuses(alphabet) :
       cmpTasks' = [cmpTasks EXCEPT ![m].pc = "read", ![m].status = status]
  /\ UNCHANGED <<selectedModels, isRunningComparison, comparisonResults,
                 currentRunProgress, cmpRunModels, cmpNow, cmpFetches,
                 cmpLinesRead, cmpToggles>>

\* fetch rejects, or the response has no body
CmpFetchFail(m) ==
  /\ cmpTasks[m].pc = "fetch"
  /\ cmpTasks' = [cmpTasks EXCEPT ![m] = CloseTask(@, cmpNow, "Failed to fetch")]
  /\ UNCHANGED <<selectedModels, isRunningComparison, comparisonResults,
                 currentRunProgress, cmpRunModels, cmpNow, cmpFetches, cmpLinesRead, cmpToggles>>

CmpReadChunk(m) ==
  /\ cmpTasks[m].pc = "read"
  /\ \E n \in 1..MaxChunk : \E chunk \in [1..n -> CmpLinesOf(alphabet)] :
       /\ CmpInputs + n <= MaxCmpInputs
       /\ cmpLinesRead' = cmpLinesRead + n
       /\ cmpTasks' = [cmpTasks EXCEPT ![m] = CmpFoldLines(@, chunk, cmpNow)]
       /\ currentRunProgress' = ProgressAfter(currentRunProgress, m, chunk)
  /\ UNCHANGED <<selectedModels, isRunningComparison, comparisonResults,
                 cmpRunModels, cmpNow, cmpFetches, cmpToggles>>

CmpStreamEnd(m) ==
  /\ cmpTasks[m].pc = "read"
  /\ cmpTasks' = [cmpTasks EXCEPT ![m] = CloseTask(@, cmpNow, "")]
  /\ UNCHANGED <<selectedModels, isRunningComparison, comparisonResults,
                 currentRunProgress, cmpRunModels, cmpNow, cmpFetches, cmpLinesRead, cmpToggles>>

CmpReadFail(m) ==
  /\ cmpTasks[m].pc = "read"
  /\ cmpTasks' = [cmpTasks EXCEPT ![m] = CloseTask(@, cmpNow, "network error")]
  /\ UNCHANGED <<selectedModels, isRunningComparison, comparisonResults,
                 currentRunProgress, cmpRunModels, cmpNow, cmpFetches, cmpLinesRead, cmpToggles>>

\* Promise.race(tasks): settled when the first task has returned
AllSettled_First(tasks, models) ==
  \E i \in 1..Len(models) : tasks[models[i]].pc = "done"

\* Promise.all(tasks) is settled when every task has returned
AllSettled(tasks, models) ==
  \A i \in 1..Len(models) : tasks[models[i]].pc = "done"

\* results.map(r => ...): one entry of MultiModelRun.results
ResultOf(m, t) ==
  [model |-> m, duration |-> t.duration, stageTimings |-> t.stageTimings,
   sourceCount |-> t.sourceCount, wordCount |-> TotalWords(t.totalContent),
   success |-> (t.error = ""), error |-> t.error]

\* the continuation of `await Promise.all(tasks)`
MergeResults ==
  /\ isRunningComparison
  /\ AllSettled(cmpTasks, cmpRunModels)
  /\ comparisonResults' =
       <<[i \in 1..Len(cmpRunModels) |->
            ResultOf(cmpRunModels[i], cmpTasks[cmpRunModels[i]])]>>
         \o comparisonResults
  /\ isRunningComparison' = FALSE
  /\ UNCHANGED <<selectedModels, currentRunProgress, cmpRunModels, cmpTasks,
                 cmpNow, cmpFetches, cmpLinesRead, cmpToggles>>


\* ------------------------------------------------------- lib/googleDocs.ts
\* calls of getGoogleAccessToken in one page session
MaxTokenCalls == 3

\* the access tokens Google may answer a token request with
Tokens == {"T1", "T2"}

\* the responses the callback of initTokenClient may receive
TokenResponses ==
  [access_token : Tokens, error : {""}]
    \cup {[access_token |-> "", error |-> "access_denied"],
          [access_token |-> "", error |-> ""]}

VARIABLES
  dra_gsi_loaded,      \* window._dra_gsi_loaded
  headScripts,         \* the script elements appended to document.head
  cachedAccessToken,   \* "" for null
  tokenCalls,          \* one entry per getGoogleAccessToken call
  tokenRequests        \* calls of tokenClient.requestAccessToken so far

gsiVars ==
  <<dra_gsi_loaded, headScripts, cachedAccessToken, tokenCalls, tokenRequests>>

GsiInit ==
  /\ dra_gsi_loaded = FALSE
  /\ headScripts = <<>>
  /\ cachedAccessToken = ""
  /\ tokenCalls = <<>>
  /\ tokenRequests = 0

\* getGoogleAccessToken up to its first suspension (NEXT_PUBLIC_GOOGLE_CLIENT_ID
\* is set): the cached token is returned at once; otherwise ensureGsiLoaded
\* either finds the flag set, and the token request is issued, or appends a
\* script element and waits for it
getGoogleAccessToken ==
  /\ Len(tokenCalls) < MaxTokenCalls
  /\ IF cachedAccessToken # ""
     THEN /\ tokenCalls' = Append(tokenCalls,
               [pc |-> "done", script |-> 0, result |-> cachedAccessToken])
          /\ UNCHANGED <<headScripts, tokenRequests>>
     ELSE IF dra_gsi_loaded
     THEN /\ tokenCalls' = Append(tokenCalls,
               [pc |-> "token", script |-> 0, result |-> ""])
          /\ tokenRequests' = tokenRequests + 1
          /\ UNCHANGED headScripts
     ELSE /\ headScripts' = Append(headScripts, "loading")
          /\ tokenCalls' = Append(tokenCalls,
               [pc |-> "gsi", script |-> Len(headScripts) + 1, result |-> ""])
          /\ UNCHANGED tokenRequests
  /\ UNCHANGED <<dra_gsi_loaded, cachedAccessToken>>

\* script.onload: the flag is set, ensureGsiLoaded resolves and the call goes
\* on to initTokenClient and requestAccessToken
ScriptLoad(c) ==
  /\ tokenCalls[c].pc = "gsi"
  /\ dra_gsi_loaded' = TRUE
  /\ headScripts' = [headScripts EXCEPT ![tokenCalls[c].script] = "loaded"]
  /\ tokenCalls' = [tokenCalls EXCEPT ![c].pc = "token"]
  /\ tokenRequests' = tokenRequests + 1
  /\ UNCHANGED cachedAccessToken

\* script.onerror: ensureGsiLoaded rejects and so does the call
ScriptError(c) ==
  /\ tokenCalls[c].pc = "gsi"
  /\ headScripts' = [headScripts EXCEPT ![tokenCalls[c].script] = "failed"]
  /\ tokenCalls' = [tokenCalls EXCEPT ![c].pc = "done", ![c].result = "error"]
  /\ UNCHANGED <<dra_gsi_loaded, cachedAccessToken, tokenRequests>>

\* the callback of initTokenClient and the continuation of the call
TokenCallback(c, resp) ==
  /\ tokenCalls[c].pc = "token"
  /\ IF resp.error # "" \/ resp.access_token = ""
     THEN /\ tokenCalls' = [tokenCalls EXCEPT ![c].pc = "done",
                                              ![c].result = "error"]
          /\ UNCHANGED cachedAccessToken
     ELSE /\ cachedAccessToken' = resp.access_token
          /\ tokenCalls' = [tokenCalls EXCEPT ![c].pc = "done",
                                              ![c].result = resp.access_token]
  /\ UNCHANGED <<dra_gsi_loaded, headScripts, tokenRequests>>


\* ---------------------------------------------- ResearchContext: API keys
\* handler calls, file-reader callbacks and page reloads in one behaviour
MaxKeySteps == 4

\* what the user types into a key input
KeyValues == {"", "sk-1", "sk-2"}

EmptyKeys == [m \in Models |-> ""]

\* a Partial<ApiKeys>: the providers it names and their values
Partial(named, keys) == [named |-> named, keys |-> keys]

\* the files handed to importKeys: a file naming one provider, a file naming
\* all three, and a JSON file with none of the three fields
KeyFiles ==
  {Partial({"openai"}, [EmptyKeys EXCEPT !["openai"] = "sk-2"]),
   Partial(Models, [m \in Models |-> "sk-1"]),
   Partial({}, EmptyKeys)}

VARIABLES
  selectedModel, apiKey, apiKeys,   \* state of ResearchProvider
  localStorage,        \* the entry dra_api_keys: <<>> when absent
  quotaExceeded,       \* localStorage.setItem throws in this browser
  exportedFiles,       \* the api-keys.json files written by exportKeys
  pendingReads,        \* FileReader reads in flight, each with its closure
  lastKeyOp,           \* the handler that ran last and the providers it named
  keySteps             \* handler calls, callbacks and reloads so far

keyVars ==
  <<selectedModel, apiKey, apiKeys, localStorage, quotaExceeded, exportedFiles,
    pendingReads, lastKeyOp, keySteps>>

\* the useState initializer of apiKeys: the stored entry, or empty keys
LoadKeys(stored) == IF stored # <<>> THEN stored[1] ELSE EmptyKeys

\* the state of a freshly mounted ResearchProvider
Mounted(stored) ==
  /\ selectedModel' = "anthropic"
  /\ apiKey' = ""
  /\ apiKeys' = LoadKeys(stored)

KeyInit ==
  /\ selectedModel = "anthropic"
  /\ apiKey = ""
  /\ localStorage = <<>>
  /\ apiKeys = LoadKeys(localStorage)
  /\ quotaExceeded = FALSE
  /\ exportedFiles = {}
  /\ pendingReads = <<>>
  /\ lastKeyOp = [op |-> "", named |-> {}]
  /\ keySteps = 0

Merge(base, newKeys) ==
  [m \in Models |-> IF m \in newKeys.named THEN newKeys.keys[m] ELSE base[m]]

KeyStep(op, named) ==
  /\ keySteps < MaxKeySteps
  /\ keySteps' = keySteps + 1
  /\ lastKeyOp' = [op |-> op, named |-> named]

\* a setApiKeys that updates the state but never writes the entry
setApiKeys_NoPersist(newKeys, capKeys, capModel, dflt) ==
  /\ apiKeys' = Merge(capKeys, newKeys)
  /\ UNCHANGED localStorage
  /\ apiKey' = IF capModel \in newKeys.named THEN newKeys.keys[capModel]
               ELSE dflt

\* setApiKeys as created by the render whose apiKeys and selectedModel are
\* capKeys and capModel; dflt is the apiKey the earlier updates of the same
\* handler leave
setApiKeys(newKeys, capKeys, capModel, dflt) ==
  /\ apiKeys' = Merge(capKeys, newKeys)
  /\ localStorage' = IF quotaExceeded THEN localStorage
                     ELSE <<Merge(capKeys, newKeys)>>
  /\ apiKey' = IF capModel \in newKeys.named THEN newKeys.keys[capModel]
               ELSE dflt

\* the key input of the sidebar
handleApiKeyChange(key) ==
  /\ KeyStep("handleApiKeyChange", {selectedModel})
  /\ setApiKeys(Partial({selectedModel}, [EmptyKeys EXCEPT ![selectedModel] = key]),
                apiKeys, selectedModel, key)
  /\ UNCHANGED <<selectedModel, quotaExceeded, exportedFiles, pendingReads>>

\* a key input of the Compare tab: setApiKeys({ [model.id]: value })
KeyInput(m, key) ==
  /\ KeyStep("setApiKeys", {m})
  /\ setApiKeys(Partial({m}, [EmptyKeys EXCEPT ![m] = key]),
                apiKeys, selectedModel, apiKey)
  /\ UNCHANGED <<selectedModel, quotaExceeded, exportedFiles, pendingReads>>

clearApiKeys ==
  /\ KeyStep("clearApiKeys", {})
  /\ apiKeys' = EmptyKeys
  /\ apiKey' = ""
  /\ localStorage' = <<>>
  /\ UNCHANGED <<selectedModel, quotaExceeded, exportedFiles, pendingReads>>

\* the model select of the sidebar
handleModelChange(model) ==
  /\ KeyStep("handleModelChange", {})
  /\ selectedModel' = model
  /\ apiKey' = apiKeys[model]
  /\ UNCHANGED <<apiKeys, localStorage, quotaExceeded, exportedFiles,
                 pendingReads>>

\* the download of api-keys.json
exportKeys ==
  /\ KeyStep("exportKeys", {})
  /\ exportedFiles' = exportedFiles \cup {apiKeys}
  /\ UNCHANGED <<selectedModel, apiKey, apiKeys, localStorage, quotaExceeded,
                 pendingReads>>

\* importKeys: the file is handed to a FileReader whose onload keeps the
\* setApiKeys of this render
importKeys(file) ==
  /\ KeyStep("importKeys", {})
  /\ pendingReads' = Append(pendingReads,
       [file |-> file, apiKeys |-> apiKeys, selectedModel |-> selectedModel])
  /\ UNCHANGED <<selectedModel, apiKey, apiKeys, localStorage, quotaExceeded,
                 exportedFiles>>

\* reader.onload: a file with none of the three fields only sets the error
ReaderOnload(i) ==
  LET r == pendingReads[i]
  IN /\ KeyStep("importKeys.onload", r.file.named)
     /\ pendingReads' = [k \in 1..(Len(pendingReads) - 1) |->
                          IF k < i THEN pendingReads[k] ELSE pendingReads[k + 1]]
     /\ IF r.file.named # {}
        THEN setApiKeys(r.file, r.apiKeys, r.selectedModel, apiKey)
        ELSE UNCHANGED <<apiKeys, localStorage, apiKey>>
     /\ UNCHANGED <<selectedModel, quotaExceeded, exportedFiles>>

\* the page is loaded again: the provider mounts afresh, pending callbacks
\* are gone, localStorage and downloaded files stay
Reload ==
  /\ KeyStep("reload", {})
  /\ Mounted(localStorage)
  /\ pendingReads' = <<>>
  /\ UNCHANGED <<localStorage, quotaExceeded, exportedFiles>>


\* ------------------------------------------- line buffering of the readers
\* newline-terminated lines in one response body
MaxStreamLines == 2

\* Bytes of a response body: "d" and ":" stand for the prefix `data: `, "x" is
\* an ASCII byte of the payload, "E1" "E2" are the two bytes of one non-ASCII
\* character, "N" is the newline. Decoded text is a sequence of characters:
\* the ASCII bytes themselves, "E" for the two-byte character and "?" for
\* U+FFFD.
BodyLines ==
  {<<"d", ":", "x">>, <<"d", ":", "E1", "E2", "x">>, <<"x">>, <<"d", ":">>}

\* text after the last newline when the body ends
BodyTails == {<<>>, <<"d", ":", "x">>}

RECURSIVE BodiesOf(_)
BodiesOf(n) ==
  IF n = 0 THEN {<<>>}
  ELSE BodiesOf(n - 1)
         \cup {b \o l \o <<"N">> : b \in BodiesOf(n - 1), l \in BodyLines}

Bodies == {b \o t : b \in BodiesOf(MaxStreamLines), t \in BodyTails}

\* TextDecoder: one byte, given the bytes of an incomplete character held back
DecodeByte(pending, b) ==
  IF pending # <<>>
  THEN IF b = "E2" THEN [out |-> <<"E">>, pending |-> <<>>]
       ELSE IF b = "E1" THEN [out |-> <<"?">>, pending |-> <<"E1">>]
       ELSE [out |-> <<"?", b>>, pending |-> <<>>]
  ELSE IF b = "E1" THEN [out |-> <<>>, pending |-> <<"E1">>]
       ELSE IF b = "E2" THEN [out |-> <<"?">>, pending |-> <<>>]
       ELSE [out |-> <<b>>, pending |-> <<>>]

RECURSIVE DecodeBytes(_, _)
DecodeBytes(pending, bytes) ==
  IF bytes = <<>> THEN [out |-> <<>>, pending |-> pending]
  ELSE LET one == DecodeByte(pending, Head(bytes))
           rest == DecodeBytes(one.pending, Tail(bytes))
       IN [out |-> one.out \o rest.out, pending |-> rest.pending]

\* a decoder created anew for every chunk: the bytes held back are lost
decode_NewDecoderPerChunk(pending, value) == DecodeBytes(<<>>, value)

\* decoder.decode(value, { stream: true }) on the decoder of the call
decode(pending, value) == DecodeBytes(pending, value)

\* buffer.split('\n') followed by lines.pop() || ''
RECURSIVE split(_, _)
split(text, cur) ==
  IF text = <<>> THEN [lines |-> <<>>, buffer |-> cur]
  ELSE IF Head(text) = "N"
  THEN LET rest == split(Tail(text), <<>>)
       IN [lines |-> <<cur>> \o rest.lines, buffer |-> rest.buffer]
  ELSE split(Tail(text), Append(cur, Head(text)))

\* line.startsWith('data: ') and JSON.parse(line.slice(6)): the parsed events
\* of one line, none when the line is not a data line or the parse throws
\* (an empty payload is not JSON)
ParseLine(line) ==
  IF Len(line) >= 2 /\ line[1] = "d" /\ line[2] = ":"
  THEN IF Len(line) > 2 THEN <<SubSeq(line, 3, Len(line))>> ELSE <<>>
  ELSE <<>>

RECURSIVE ParseLines(_)
ParseLines(lines) ==
  IF lines = <<>> THEN <<>>
  ELSE ParseLine(Head(lines)) \o ParseLines(Tail(lines))

VARIABLES
  body,                \* the bytes of the response body
  bodyPos,             \* bytes delivered by reader.read() so far
  decoderPending,      \* bytes the decoder holds back
  buffer,              \* the text after the last newline seen
  parsedEvents,        \* the events handed to the dispatch, in order
  lastValue,           \* the chunk the latest reader.read() returned
  readerDone           \* reader.read() has reported done

streamVars ==
  <<body, bodyPos, decoderPending, buffer, parsedEvents, lastValue, readerDone>>

StreamInit ==
  /\ body = <<>>
  /\ bodyPos = 0
  /\ decoderPending = <<>>
  /\ buffer = <<>>
  /\ parsedEvents = <<>>
  /\ lastValue = <<>>
  /\ readerDone = FALSE

\* one iteration of the while loop: reader.read() returns the next n bytes
ReadBytes(n) ==
  /\ ~readerDone
  /\ bodyPos + n <= Len(body)
  /\ LET value == SubSeq(body, bodyPos + 1, bodyPos + n)
         dec == decode(decoderPending, value)
         sp == split(buffer \o dec.out, <<>>)
     IN /\ decoderPending' = dec.pending
        /\ buffer' = sp.buffer
        /\ parsedEvents' = parsedEvents \o ParseLines(sp.lines)
  /\ bodyPos' = bodyPos + n
  /\ lastValue' = SubSeq(body, bodyPos + 1, bodyPos + n)
  /\ UNCHANGED <<body, readerDone>>

\* reader.read() reports done: the loop is left, the buffer is dropped
ReadDone ==
  /\ ~readerDone
  /\ bodyPos = Len(body)
  /\ readerDone' = TRUE
  /\ UNCHANGED <<body, bodyPos, decoderPending, buffer, parsedEvents, lastValue>>


\* ------------------------------------------------------------ specifications
vars == <<pxVars, chatVars, cmpVars, gsiVars, keyVars, streamVars>>

Init == PxInit /\ ChatInit /\ CmpInit /\ GsiInit /\ KeyInit /\ StreamInit

OnlyPx(A) == A /\ UNCHANGED <<chatVars, cmpVars, gsiVars, keyVars, streamVars>>
OnlyChat(A) == A /\ UNCHANGED <<pxVars, cmpVars, gsiVars, keyVars, streamVars>>
OnlyCmp(A) == A /\ UNCHANGED <<pxVars, chatVars, gsiVars, keyVars, streamVars>>
OnlyGsi(A) == A /\ UNCHANGED <<pxVars, chatVars, cmpVars, keyVars, streamVars>>
OnlyKeys(A) == A /\ UNCHANGED <<pxVars, chatVars, cmpVars, gsiVars, streamVars>>
OnlyStream(A) == A /\ UNCHANGED <<pxVars, chatVars, cmpVars, gsiVars, keyVars>>

Next ==
  \/ OnlyPx(HandleSubmit)
  \/ \E l \in 1..Len(loops) : OnlyPx(FetchOk(l))
  \/ \E l \in 1..Len(loops) : OnlyPx(FetchFail(l))
  \/ \E l \in 1..Len(loops) : OnlyPx(ReadChunk(l))
  \/ \E l \in 1..Len(loops) : OnlyPx(StreamEnd(l))
  \/ \E l \in 1..Len(loops) : OnlyPx(ReadFail(l))
  \/ \E l \in 1..Len(loops) : OnlyPx(Aborted(l))
  \/ OnlyPx(stopStreaming)
  \/ OnlyPx(Unmount)
  \/ OnlyPx(Mount)
  \/ OnlyPx(AutoFixEffect)
  \/ OnlyPx(AutoFixTimer)

Spec == Init /\ [][Next]_vars

NextChat ==
  \/ OnlyChat(ChatHandleSubmit)
  \/ \E l \in 1..Len(chatLoops) : OnlyChat(ChatFetchOk(l))
  \/ \E l \in 1..Len(chatLoops) : OnlyChat(ChatFetchFail(l))
  \/ \E l \in 1..Len(chatLoops) : OnlyChat(ChatReadChunk(l))
  \/ \E l \in 1..Len(chatLoops) : OnlyChat(ChatStreamEnd(l))
  \/ \E l \in 1..Len(chatLoops) : OnlyChat(ChatReadFail(l))
  \/ \E l \in 1..Len(chatLoops) : OnlyChat(ChatAborted(l))
  \/ OnlyChat(ChatStopStreaming)
  \/ OnlyChat(ChatTypingTimeout)

\* the chat-style component does not read the Perplexity-style line sets
InitChat == Init /\ alphabet = "report"

SpecChat == InitChat /\ [][NextChat]_vars

NextCmp ==
  \/ \E m \in Models : OnlyCmp(ToggleModel(m))
  \/ OnlyCmp(runMultiModelComparison)
  \/ OnlyCmp(Tick)
  \/ \E m \in Models : OnlyCmp(CmpFetchOk(m))
  \/ \E m \in Models : OnlyCmp(CmpFetchFail(m))
  \/ \E m \in Models : OnlyCmp(CmpReadChunk(m))
  \/ \E m \in Models : OnlyCmp(CmpStreamEnd(m))
  \/ \E m \in Models : OnlyCmp(CmpReadFail(m))
  \/ OnlyCmp(MergeResults)

\* the comparison page tells a working backend from a failing one only
InitCmp == Init /\ alphabet \in {"report", "misc"}

SpecCmp == InitCmp /\ [][NextCmp]_vars

\* The chat-style component in the middle of a stream: handleSubmit has run,
\* the response has arrived, and n api_call events with the contents "1".."n"
\* have been folded. The budget counts the lines that follow.
ChatAfterPrefix(n) ==
  [isStreaming |-> TRUE,
   streamingEvents |->
     [i \in 1..n |-> ChatEv("api_call", "", ToString(i), "", "")],
   currentStage |-> "",
   messages |-> <<[session |-> 1, type |-> "user",
                   content |-> Tok("query", ""), isStreaming |-> FALSE],
                  [session |-> 1, type |-> "system",
                   content |-> Tok("STARTING", ""), isStreaming |-> TRUE]>>,
   apiCallLogs |-> [i \in 1..n |-> ToString(i)],
   isTyping |-> FALSE, currentTypingStage |-> "", timers |-> 0]

LogPrefixes == (LogWindow - 2)..LogWindow

InitLog ==
  /\ PxInit /\ alphabet = "report"
  /\ CmpInit /\ GsiInit /\ KeyInit /\ StreamInit
  /\ \E n \in LogPrefixes :
       LET s == ChatAfterPrefix(n)
       IN /\ chatIsStreaming = s.isStreaming
          /\ chatStreamingEvents = s.streamingEvents
          /\ chatCurrentStage = s.currentStage
          /\ chatMessages = s.messages
          /\ chatApiCallLogs = s.apiCallLogs
          /\ chatIsTyping = s.isTyping
          /\ chatCurrentTypingStage = s.currentTypingStage
          /\ chatTimers = s.timers
  /\ chatAbortRef = 1
  /\ chatLoops = <<[pc |-> "read", aborted |-> FALSE]>>
  /\ chatLinesRead = 0

SpecLog == InitLog /\ [][NextChat]_vars

NextGsi ==
  \/ OnlyGsi(getGoogleAccessToken)
  \/ \E c \in 1..Len(tokenCalls) : OnlyGsi(ScriptLoad(c))
  \/ \E c \in 1..Len(tokenCalls) : OnlyGsi(ScriptError(c))
  \/ \E c \in 1..Len(tokenCalls), resp \in TokenResponses :
       OnlyGsi(TokenCallback(c, resp))

InitGsi == Init /\ alphabet = "report"

SpecGsi == InitGsi /\ [][NextGsi]_vars

NextKeys ==
  \/ \E key \in KeyValues : OnlyKeys(handleApiKeyChange(key))
  \/ \E m \in Models, key \in KeyValues : OnlyKeys(KeyInput(m, key))
  \/ OnlyKeys(clearApiKeys)
  \/ \E model \in Models : OnlyKeys(handleModelChange(model))
  \/ OnlyKeys(exportKeys)
  \/ \E file \in KeyFiles : OnlyKeys(importKeys(file))
  \/ \E i \in 1..Len(pendingReads) : OnlyKeys(ReaderOnload(i))
  \/ OnlyKeys(Reload)

\* a browser whose storage accepts writes, and one whose storage is full
InitKeys ==
  /\ PxInit /\ alphabet = "report"
  /\ ChatInit /\ CmpInit /\ GsiInit /\ StreamInit
  /\ selectedModel = "anthropic"
  /\ apiKey = ""
  /\ localStorage = <<>>
  /\ apiKeys = LoadKeys(localStorage)
  /\ quotaExceeded \in BOOLEAN
  /\ exportedFiles = {}
  /\ pendingReads = <<>>
  /\ lastKeyOp = [op |-> "", named |-> {}]
  /\ keySteps = 0

SpecKeys == InitKeys /\ [][NextKeys]_vars

NextStream ==
  \/ \E n \in 1..Len(body) : OnlyStream(ReadBytes(n))
  \/ OnlyStream(ReadDone)

\* a reader at the start of a response body
InitStream ==
  /\ PxInit /\ alphabet = "report"
  /\ ChatInit /\ CmpInit /\ GsiInit /\ KeyInit
  /\ body \in Bodies
  /\ bodyPos = 0
  /\ decoderPending = <<>>
  /\ buffer = <<>>
  /\ parsedEvents = <<>>
  /\ lastValue = <<>>
  /\ readerDone = FALSE

SpecStream == InitStream /\ [][NextStream]_vars

\* ------------------------------------------------------------------ claims
Types(evs) == [i \in 1..Len(evs) |-> evs[i].type]

\* the event types whose branch appends one entry to streamingEvents
AppendingTypes ==
  {"stage_start", "stage_update", "sources_found", "research_step",
   "research_finding", "research_complete", "stage_complete", "api_call",
   "research_planning", "research_analysis", "research_synthesis",
   "final_report", "error"}

RECURSIVE ValidTypes(_)
ValidTypes(lines) ==
  IF lines = <<>> THEN <<>>
  ELSE IF Head(lines).kind = "data" /\ Head(lines).ev.type \in AppendingTypes
       THEN <<Head(lines).ev.type>> \o ValidTypes(Tail(lines))
       ELSE ValidTypes(Tail(lines))

\* C1: a chunk that mixes malformed `data: ` lines with valid ones adds one
\* entry per valid line to streamingEvents, in arrival order, adds nothing for
\* a malformed line, and leaves the read loop running.
C1_MalformedDropped ==
  [][linesRead' # linesRead =>
       LET l == lastRead'.loop
       IN /\ loops'[l].pc = "read"
          /\ Live(l) => Types(streamingEvents') =
                          Types(streamingEvents) \o ValidTypes(lastRead'.chunk)]_vars

C1_Witness ==
  /\ lastRead.loop # 0
  /\ Len(lastRead.chunk) = 2
  /\ lastRead.chunk[1].kind = "malformed"
  /\ lastRead.chunk[2].kind = "data"
  /\ Live(lastRead.loop)
  /\ loops[lastRead.loop].pc = "read"
  /\ Len(streamingEvents) > 0
  /\ streamingEvents[Len(streamingEvents)].type = lastRead.chunk[2].ev.type

\* the content of the latest explicit final-report-stage event of the session
ExplicitFinalIndexes ==
  {i \in 1..Len(streamingEvents) :
     /\ streamingEvents[i].type \in {"stage_start", "stage_update"}
     /\ StageLowerIncludesFinal(streamingEvents[i].stage)
     /\ ContentLength(streamingEvents[i].content) > 100}

\* C2: once an explicit final-report-stage event has set finalReportContent,
\* a later completion event does not replace it.
C2_ExplicitReportKept ==
  \A i \in ExplicitFinalIndexes :
    (\A j \in ExplicitFinalIndexes : j <= i)
      => finalReportContent = streamingEvents[i].content

\* C3: the final report of a session is the content of an event of that
\* session, never a value left over from an earlier session.
C3_ReportFromThisSession ==
  (/\ finalReportContent # ""
   /\ Len(loops) >= 2
   /\ \A l \in 1..(Len(loops) - 1) : loops[l].pc = "done")
    => \E i \in 1..Len(streamingEvents) :
         streamingEvents[i].content = finalReportContent

\* C4: research_complete and error are terminal: once one is folded the
\* session is no longer streaming and nothing is folded after it.
C4_TerminalEvents ==
  \A i \in 1..Len(streamingEvents) :
    streamingEvents[i].type \in {"research_complete", "error"}
      => i = Len(streamingEvents) /\ ~isStreaming

\* C5: whenever a handleSubmit call leaves its read loop, by whatever path,
\* isStreaming is false afterwards.
C5_ExitClearsStreaming ==
  [][\A l \in 1..Len(loops) :
       (loops[l].pc # "done" /\ loops'[l].pc = "done") => ~isStreaming']_vars

C5_Witness ==
  \E l \in 1..Len(loops) :
    /\ loops[l].pc = "done"
    /\ ~loops[l].aborted
    /\ ~isStreaming
    /\ Includes(streamingContent, "ERROR")

C8_StopAbortsActiveLoops ==
  [][stopStreaming =>
       \A l \in 1..Len(loops) : loops'[l].pc # "done" => loops'[l].aborted]_vars

\* C6: when the chat-style read loop has ended, isStreaming is false.
C6_ChatStreamEndClearsStreaming ==
  (chatLoops # <<>> /\ \A l \in 1..Len(chatLoops) : chatLoops[l].pc = "done")
    => ~chatIsStreaming

\* a step of the task of model n
TaskStep(n) ==
  \/ CmpFetchOk(n) \/ CmpFetchFail(n) \/ CmpReadChunk(n)
  \/ CmpStreamEnd(n) \/ CmpReadFail(n)

\* C9: a step of one model's task (an event, the end of its stream or a
\* failure) changes neither the locals and result of a sibling task nor the
\* sibling's entry of currentRunProgress.
C9_TasksIsolated ==
  [][\A n \in Models : TaskStep(n) =>
       \A m \in Models \ {n} :
         /\ cmpTasks'[m] = cmpTasks[m]
         /\ currentRunProgress'[m] = currentRunProgress[m]]_vars

C9_Witness ==
  \E m, n \in Models :
    /\ m # n
    /\ cmpTasks[m].pc = "done" /\ cmpTasks[m].error # ""
    /\ currentRunProgress[m] = "write_research_brief"
    /\ cmpTasks[n].pc = "done" /\ cmpTasks[n].error = ""
    /\ cmpTasks[n].sourceCount = 2
    /\ currentRunProgress[n] = "streaming"

\* C10: the summary is added and isRunningComparison is cleared only when
\* every selected model's task has ended, and the summary has exactly one
\* result per selected model.
C10_SummaryAfterAllTasks ==
  [][(comparisonResults' # comparisonResults
        \/ (isRunningComparison /\ ~isRunningComparison'))
       => /\ \A i \in 1..Len(selectedModels) :
               cmpTasks[selectedModels[i]].pc = "done"
          /\ ~isRunningComparison'
          /\ Len(comparisonResults') = Len(comparisonResults) + 1
          /\ LET summary == comparisonResults'[1]
             IN /\ Len(summary) = Len(selectedModels)
                /\ \A i \in 1..Len(summary) : summary[i].model = selectedModels[i]
                /\ Cardinality({summary[i].model : i \in 1..Len(summary)})
                     = Len(summary)]_vars

C10_Witness ==
  /\ ~isRunningComparison
  /\ Len(comparisonResults) = 1
  /\ Len(comparisonResults[1]) = 3
  /\ \E i, j \in 1..3 :
       /\ ~comparisonResults[1][i].success
       /\ comparisonResults[1][j].success
       /\ comparisonResults[1][j].wordCount = 3

\* C11: a model whose response had a non-2xx status, or whose stream carried
\* an event of type error, is recorded with success = false; success = true
\* is recorded only for a stream that completed without such an error.
C11_FailureRecorded ==
  (~isRunningComparison /\ comparisonResults # <<>>)
    => \A i \in 1..Len(comparisonResults[1]) :
         LET r == comparisonResults[1][i]
             t == cmpTasks[r.model]
         IN r.success =>
              /\ t.status = 200
              /\ \A k \in 1..Len(t.totalContent) : t.totalContent[k] # "X"

\* C12: within one session the number of entries of researchSources never
\* decreases as the session's events are folded.
C12_SourcesMonotone ==
  [][(linesRead' # linesRead /\ lastRead'.loop = Len(loops))
       => Len(researchSources') >= Len(researchSources)]_vars

\* C13: researchSources never contains the same URL twice.
C13_SourcesAreSet ==
  Cardinality(SeqToSet(researchSources)) = Len(researchSources)

\* the latest handleSubmit call, on the mounted component, folds a chunk that
\* is exactly the event ev
FoldsAlone(ev) ==
  /\ linesRead' # linesRead
  /\ lastRead'.loop = Len(loops)
  /\ Live(Len(loops))
  /\ lastRead'.chunk = <<DataLine(ev)>>

\* C14: a research_complete event with content, in a session that has seen
\* no final-report-stage event, makes its own content the final report.
C14_CompleteContentSelected ==
  [][\A ev \in {EvCompleteTitle, EvCompleteDone} :
       (/\ FoldsAlone(ev)
        /\ \A i \in 1..Len(streamingEvents) :
             ~StageLowerIncludesFinal(streamingEvents[i].stage))
         => finalReportContent' = ev.content]_vars

\* C15: a research_complete event without content, in a session with no
\* earlier event, shows the fallback text and leaves finalReportContent empty.
C15_FallbackShown ==
  [][(FoldsAlone(EvCompleteEmpty) /\ streamingEvents = <<>>)
       => /\ finalReportContent' = ""
          /\ streamingContent' = <<Tok("FALLBACK", "")>>]_vars

\* C16: immediately after folding an event that carries a stage, whatever
\* its type, currentStage is that event's stage.
C16_StageLastWriteWins ==
  [][\A line \in LinesOf(alphabet) :
       (line.kind = "data" /\ line.ev.stage # "" /\ FoldsAlone(line.ev))
         => currentStage' = line.ev.stage]_vars

\* C17: apiCallLogs never holds more than 50 entries.
C17_LogBounded == Len(chatApiCallLogs) <= LogWindow

\* C18: when the response has a non-2xx status or the connection fails, no
\* event is folded, isStreaming becomes false, the error message (with the
\* HTTP status for a non-2xx response) is shown by the component that
\* submitted, and no request is issued in its place; a call that has ended
\* never runs again.
C18_FetchFailureTerminal ==
  [][/\ \A l \in 1..Len(loops) :
          (loops[l].pc = "fetch" /\ ~loops[l].aborted /\ loops'[l].pc = "done")
            => /\ ~isStreaming'
               /\ streamingEvents' = streamingEvents
               /\ Len(loops') = Len(loops)
               /\ Live(l) =>
                    streamingContent' \in
                      {<<Tok("ERROR", "HTTP error! status: 500")>>,
                       <<Tok("ERROR", "Failed to fetch")>>}
     /\ \A l \in 1..Len(loops) : loops[l].pc = "done" => loops'[l].pc = "done"
    ]_vars

C18_Witness ==
  /\ Len(loops) = 1
  /\ loops[1].pc = "done" /\ ~loops[1].aborted
  /\ Live(1)
  /\ ~isStreaming
  /\ streamingEvents = <<>>
  /\ streamingContent = <<Tok("ERROR", "HTTP error! status: 500")>>

\* the text an error event is reported with
ErrorText(ev) ==
  IF ev.error # "" THEN ev.error
  ELSE IF ev.content # "" THEN ev.content
  ELSE "An unexpected error occurred"

\* one line was read and it was the error event ev
ChatFoldsError(ev) ==
  /\ ev.type = "error"
  /\ chatLinesRead' = chatLinesRead + 1
  /\ chatStreamingEvents' = Append(chatStreamingEvents, ev)

\* C19: folding an error event clears isStreaming and isTyping and replaces
\* the system message of the session with the backend's error text, marked
\* as possibly temporary exactly when the text contains '500', 'rate limit'
\* or 'timeout'; no request is issued.
C19_ErrorEventShown ==
  [][\A ev \in ChatEvents :
       ChatFoldsError(ev)
         => /\ ~chatIsStreaming'
            /\ ~chatIsTyping'
            /\ chatLoops' = chatLoops
            /\ \E l \in 1..Len(chatLoops) :
                 /\ chatLoops[l].pc = "read"
                 /\ \E i \in 1..Len(chatMessages') :
                      /\ chatMessages'[i].session = l
                      /\ chatMessages'[i].type = "system"
                      /\ ~chatMessages'[i].isStreaming
                      /\ chatMessages'[i].content =
                           Tok(IF ErrorText(ev) \in {"E500"}
                               THEN "retryable" ELSE "Error", ErrorText(ev))]_vars

C19_Witness ==
  /\ ~chatIsStreaming
  /\ \E i, j \in 1..Len(chatMessages) :
       /\ chatMessages[i].type = "system"
       /\ chatMessages[i].content = Tok("retryable", "E500")
       /\ chatMessages[j].type = "system"
       /\ chatMessages[j].content = Tok("Error", "An unexpected error occurred")

\* C20: after a session has ended with a final report and the component has
\* been unmounted and mounted again, the page shows the stored final report
\* and sources.
C20_ReportShownAfterRemount ==
  (/\ mounted /\ instance > 0
   /\ \A l \in 1..Len(loops) : loops[l].pc = "done" /\ loops[l].instance # instance
   /\ sessionStorage.finalReportContent # "")
    => /\ renderResearchContent.content =
            <<Tok("raw", sessionStorage.finalReportContent)>>
       /\ renderResearchContent.sources = sessionStorage.researchSources

\* the event types the dispatch of handleSubmit has a branch for
HandledTypes ==
  {"stage_start", "stage_update", "sources_found", "research_step",
   "research_finding", "research_complete", "stage_complete", "api_call",
   "research_planning", "research_analysis", "research_synthesis",
   "final_report", "error"}

IsUnhandled(line) == line.kind = "data" /\ line.ev.type \notin HandledTypes

\* C28: an event whose type has no branch changes no session state and does
\* not stop the lines after it: every read step leaves the state it would
\* leave had the chunk not contained the unhandled events, and the loop
\* keeps reading.
C28_UnknownTypesIgnored ==
  [][\A l \in 1..Len(loops) :
       (linesRead' # linesRead /\ lastRead'.loop = l)
         => LET known == SelectSeq(lastRead'.chunk,
                                   LAMBDA line : ~IsUnhandled(line))
                s == FoldLines(UI, loops[l].cap, known)
            IN /\ isStreaming' = s.isStreaming
               /\ loops'[l].pc = "read"
               /\ Live(l) =>
                    /\ streamingEvents' = s.streamingEvents
                    /\ currentStage' = s.currentStage
                    /\ apiCallLogs' = s.apiCallLogs
                    /\ researchSources' = s.researchSources
                    /\ finalReportContent' = s.finalReportContent
                    /\ streamingContent' = s.streamingContent]_vars

\* a chunk of an unhandled event followed by an api_call event has been
\* folded: only the api_call event was recorded
C28_Witness ==
  /\ Len(loops) = 1 /\ loops[1].pc = "read" /\ Live(1)
  /\ lastRead.chunk = <<DataLine(EvUnknown), DataLine(EvApiCall)>>
  /\ streamingEvents = <<EvApiCall>>
  /\ apiCallLogs = <<EvApiCall.content>>
  /\ isStreaming

\* the handleSubmit calls whose request or read loop is still running and
\* has not been aborted
ActiveLoops ==
  {l \in 1..Len(loops) : loops[l].pc \in {"fetch", "read"} /\ ~loops[l].aborted}

\* C26: isStreaming stays true until the read loop of the submit has exited,
\* so at any time at most one read loop is active.
C26_OneActiveLoop ==
  /\ Cardinality(ActiveLoops) <= 1
  /\ ActiveLoops # {} => isStreaming

\* C27: the typing indicator is a debounce: while the timer of a later
\* stage-bearing event is still pending, the timer of an earlier event that
\* fires (timers of equal delay fire in the order they were set) does not turn
\* the indicator off.
C27_TypingDebounced ==
  [][(chatTimers' = chatTimers - 1 /\ chatTimers > 1 /\ chatIsTyping)
       => chatIsTyping']_vars

\* C23: for any number and interleaving of calls, at most one Google
\* Identity Services script element is appended to the document.
C23_ScriptInjectedOnce == Len(headScripts) <= 1

\* C24: once a call has resolved with a token, that token stays the cached
\* one and is what every later call returns.
C24_TokenCachedOnce ==
  [][cachedAccessToken # "" => cachedAccessToken' = cachedAccessToken]_vars

\* the keys a page reload would load
StoredKeys == LoadKeys(localStorage)

C22_KeysNeverStored ==
  /\ \A m \in Models : StoredKeys[m] = ""
  /\ \A f \in exportedFiles : \A m \in Models : f[m] = ""

\* C29: in every reachable state the current apiKey is the key of the
\* selected model.
C29_ApiKeyOfSelectedModel == apiKey = apiKeys[selectedModel]

\* the handlers that end in a setApiKeys call
SetOps == {"setApiKeys", "handleApiKeyChange", "importKeys.onload"}

\* C30: a setApiKeys call changes only the providers it names: every other
\* key keeps its value in memory and, where the write succeeds, in the entry.
C30_OnlyNamedKeysChange ==
  [][(/\ keySteps' = keySteps + 1
      /\ lastKeyOp'.op \in SetOps /\ lastKeyOp'.named # {})
       => \A m \in Models \ lastKeyOp'.named :
            /\ apiKeys'[m] = apiKeys[m]
            /\ ~quotaExceeded => LoadKeys(localStorage')[m] = apiKeys[m]]_vars

\* the events of the newline-terminated data lines among the first n bytes
\* of the body, decoded and split in one piece
EventsOfPrefix(n) ==
  ParseLines(split(DecodeBytes(<<>>, SubSeq(body, 1, n)).out, <<>>).lines)

\* C25: the events folded do not depend on the chunking: whatever chunks
\* delivered the first bodyPos bytes, the events handed to the dispatch are
\* those of the newline-terminated data lines among these bytes, each once
\* and in stream order; text after the last newline is never folded.
C25_ChunkingIndependent == parsedEvents = EventsOfPrefix(bodyPos)

\* a chunk that starts between the two bytes of a character and ends inside
\* the next line has been read: the first line, begun in an earlier chunk,
\* was folded whole, and the begun second line waits in the buffer
C25_Witness ==
  /\ lastValue = <<"E2", "x", "N", "d">>
  /\ parsedEvents = <<<<"E", "x">>>>
  /\ buffer = <<"d">>
  /\ ~readerDone
====
